---- MODULE Spec2Model ----
(***************************************************************************)
(* Release automation: ReleaseController.processRelease and the four       *)
(* service adapters it drives (GitHubService, TestRailService,             *)
(* JiraService, ConfluenceService).                                        *)
(*                                                                         *)
(* Every `await` of the source is one atomic round trip to a remote        *)
(* service: the action named after the request performs the remote effect, *)
(* stores the response in the locals of the invocation and runs the        *)
(* synchronous continuation up to the next `await`.  Any request may fail  *)
(* instead (RequestFails); the catch blocks rethrow.                       *)
(*                                                                         *)
(* Strings are sequences of tokens, so that concatenation, prefix          *)
(* stripping and substring replacement are computed, not assumed.          *)
(***************************************************************************)
EXTENDS Integers, Sequences, FiniteSets, TLC

VARIABLES
  run,        \* run[r]: the locals of invocation slot r of processRelease
  started,    \* number of processRelease invocations made so far
  past,       \* what the successful invocations before the current one created
  proc,       \* the node process running index.js: configuration, arguments, phase
  plans,      \* TestRail: test plans
  entries,    \* TestRail: plan entries (cases attached to a plan)
  sections,   \* TestRail: sections
  cases,      \* TestRail: test cases
  suites,     \* TestRail: the project's suites, in listing order
  versions,   \* JIRA: the project's versions, in listing order
  issues,     \* JIRA: issues whose fixVersion is the release's version
  pages       \* Confluence: pages of the space

vars == <<run, started, past, proc, plans, entries, sections, cases, suites, versions, issues, pages>>

-----------------------------------------------------------------------------
(* Bounds *)

MaxRuns == 2      \* invocations of processRelease in one behaviour
MaxIssues == 2    \* issues the tracker query returns at most

\* Two invocation slots: slot 1 is the only one used when invocations do
\* not overlap; slot 2 is a second, overlapping invocation.
Slots == {1, 2}

-----------------------------------------------------------------------------
(* JavaScript values *)

Null == <<"<null>">>

\* `if (x)` / `x || d` on a string or null
Truthy(x) == x # Null /\ x # <<>>

OrElse(x, d) == IF Truthy(x) THEN x ELSE d

\* `n || d` on a number or undefined (undefined is 0 here: no id is 0)
OrElseNum(n, d) == IF n # 0 THEN n ELSE d

NoRep(s) == \A i, j \in 1..Len(s) : i # j => s[i] # s[j]

RECURSIVE SeqOf(_, _)
\* all sequences over S of length at most n in which nothing occurs twice
SeqOf(S, n) ==
  IF n = 0 THEN {<<>>}
  ELSE LET shorter == SeqOf(S, n - 1)
       IN  shorter \cup {Append(s, x) : s \in {t \in shorter : Len(t) = n - 1},
                                        x \in S}

-----------------------------------------------------------------------------
(* GitHubService *)

MsPerHour == 3600000
NewWindowHours == 24

\* The repository's releases.  The latest one is tagged v1; an older one is
\* tagged 0.9 (no v prefix) and is older than 24 hours at every clock value.
LatestRelease ==
  [tag_name |-> <<"v", "1">>, body |-> <<"Release notes">>,
   published_at |-> <<"2023-01-01">>, created_at |-> 0]

OldRelease ==
  [tag_name |-> <<"0", ".", "9">>, body |-> <<>>,
   published_at |-> <<"2022-12-01">>, created_at |-> 0 - MsPerHour]

\* Two more old releases, tagged vv1 and V1
OddlyTagged ==
  {[tag_name |-> tag, body |-> <<>>, published_at |-> <<"2022-11-01">>,
    created_at |-> 0 - 2 * MsPerHour] : tag \in {<<"v", "v", "1">>, <<"V", "1">>}}

Releases == {LatestRelease, OldRelease} \cup OddlyTagged

NoRelease ==
  [tag_name |-> Null, body |-> Null, published_at |-> Null, created_at |-> 0]

\* Values `new Date()` may take when isNewRelease runs: exactly 24 hours
\* after the latest release was created, and one millisecond later.
NowValues == {NewWindowHours * MsPerHour, NewWindowHours * MsPerHour + 1}

\* The tags processRelease is invoked with: none (null), the empty string,
\* the two existing tags, and a tag no release has.
TagArgs == {Null, <<>>, <<"v", "1">>, <<"0", ".", "9">>, <<"v", "9">>}

\* (mutant) every leading v removed: tagName.replace(/^v+/, '')
RECURSIVE extractVersionFromTagGreedy(_)
extractVersionFromTagGreedy(tagName) ==
  IF Len(tagName) > 0 /\ tagName[1] = "v"
    THEN extractVersionFromTagGreedy(Tail(tagName)) ELSE tagName

\* tagName.replace(/^v/, '')
extractVersionFromTag(tagName) ==
  IF Len(tagName) > 0 /\ tagName[1] = "v" THEN Tail(tagName) ELSE tagName

\* (mutant) the window compared with < instead of <=
isNewReleaseStrict(release, now) ==
  (now - release.created_at) < NewWindowHours * MsPerHour

\* diffInHours = (now - releaseDate) / (1000 * 60 * 60); diffInHours <= 24.
\* The quotient is a real number, so the test is diff <= 24 * 3600000 ms.
isNewRelease(release, now) ==
  (now - release.created_at) <= NewWindowHours * MsPerHour

\* octokit.rest.repos.getReleaseByTag: the releases carrying the tag
ReleasesByTag(tagName) == {rel \in Releases : rel.tag_name = tagName}

-----------------------------------------------------------------------------
(* JiraService *)

IssueKeys == 1..MaxIssues

PriorityNames == <<"Highest", "constructor", "", "Blocker">>
IssueTypeNames == <<"Epic", "valueOf", "", "Spike">>

\* The issue with key PROJ-k as searchJira returns it ("" is a missing name)
Issue(k) ==
  [key |-> <<"PROJ-", ToString(k)>>,
   fields |-> [summary |-> <<"Ticket ", ToString(k)>>,
               priority |-> PriorityNames[((k - 1) % 4) + 1],
               issuetype |-> IssueTypeNames[((k - 1) % 4) + 1]]]

\* The lists the tracker query can return
IssueLists == {s \in SeqOf(IssueKeys, MaxIssues) : NoRep(s)}

\* Property names every object literal inherits from Object.prototype: map[name]
\* is then a function (or the prototype object), which is truthy
ObjectPrototypeKeys ==
  {"constructor", "toString", "toLocaleString", "valueOf", "hasOwnProperty",
   "isPrototypeOf", "propertyIsEnumerable", "__proto__"}

\* what map[name] is for such a name: not a number (no id is negative)
InheritedMember == 0 - 1

\* priorityMap[jiraPriority] || 3
mapJiraPriorityToTestRail(jiraPriority) ==
  CASE jiraPriority = "Highest" -> 1
    [] jiraPriority = "High"    -> 2
    [] jiraPriority = "Medium"  -> 3
    [] jiraPriority = "Low"     -> 4
    [] jiraPriority = "Lowest"  -> 5
    [] jiraPriority \in ObjectPrototypeKeys -> InheritedMember
    [] OTHER                    -> 3

\* typeMap[issueType] || 1
mapJiraIssueTypeToTestRail(issueType) ==
  CASE issueType = "Bug"         -> 1
    [] issueType = "Task"        -> 2
    [] issueType = "Story"       -> 3
    [] issueType = "Epic"        -> 7
    [] issueType = "Improvement" -> 6
    [] issueType \in ObjectPrototypeKeys -> InheritedMember
    [] OTHER                     -> 1

\* (mutant) the title is the summary alone and type and priority are exchanged
formatTicketForTestCaseSummaryOnly(issue) ==
  [title      |-> issue.fields.summary,
   jiraTicket |-> issue.key,
   priority   |-> mapJiraIssueTypeToTestRail(issue.fields.issuetype),
   type       |-> mapJiraPriorityToTestRail(issue.fields.priority)]

formatTicketForTestCase(issue) ==
  [title      |-> issue.key \o <<" - ">> \o issue.fields.summary,
   jiraTicket |-> issue.key,
   priority   |-> mapJiraPriorityToTestRail(issue.fields.priority),
   type       |-> mapJiraIssueTypeToTestRail(issue.fields.issuetype)]

\* versions.find(v => v.name === versionName): index of the first match, 0 if none
getVersionByName(vs, versionName) ==
  LET hits == {i \in 1..Len(vs) : vs[i].name = versionName}
  IN  IF hits = {} THEN 0 ELSE CHOOSE i \in hits : \A j \in hits : i <= j

\* jira.createVersion({name, description: description || `Release ${name}`})
createVersion(vs, versionName, description) ==
  [id |-> Len(vs) + 1, name |-> versionName,
   description |-> OrElse(description, <<"Release ">> \o versionName)]

-----------------------------------------------------------------------------
(* TestRailService *)

Host == <<"https://example.testrail.io">>

\* The suite listings of the project: none, one suite, two suites
SuiteLists == {<<>>, <<1>>, <<2, 1>>}

PlanName(releaseName) == <<"Release ">> \o releaseName \o <<" Test Plan">>

SectionName(releaseName) == <<"Release ">> \o releaseName

\* (mutant) the plan of that release is returned when there is one
addPlanOnce(releaseName, description) ==
  IF \E p \in plans : p.name = PlanName(releaseName)
    THEN CHOOSE p \in plans : p.name = PlanName(releaseName)
    ELSE [id |-> Cardinality(plans) + 1, name |-> PlanName(releaseName),
          description |-> OrElse(description, <<"Test plan for release ">> \o releaseName)]

\* testrail.addPlan(projectId, {name, description})
addPlan(releaseName, description) ==
  [id |-> Cardinality(plans) + 1, name |-> PlanName(releaseName),
   description |-> OrElse(description, <<"Test plan for release ">> \o releaseName)]

\* (mutant) the suite filter not passed: the sections of every suite
getSectionsOfAllSuites(suiteId) == sections

\* testrail.getSections(projectId, {suite_id})
getSections(suiteId) == {s \in sections : s.suite_id = suiteId}

\* (mutant) the lookup compares with the bare version, not `Release ${version}`
findReleaseSectionByVersion(listed, releaseName) ==
  LET hits == {s \in listed : s.name = releaseName}
  IN  {s \in hits : \A t \in hits : s.id <= t.id}

\* sections.find(section => section.name === `Release ${releaseName}`):
\* the first match in listing (id) order, as a set of at most one section
findReleaseSection(listed, releaseName) ==
  LET hits == {s \in listed : s.name = SectionName(releaseName)}
  IN  {s \in hits : \A t \in hits : s.id <= t.id}

\* (mutant) the section of that name in the suite is returned when there is one
addSectionOnce(suiteId, name) ==
  IF \E s \in sections : s.suite_id = suiteId /\ s.name = name
    THEN CHOOSE s \in sections : s.suite_id = suiteId /\ s.name = name
    ELSE [id |-> Cardinality(sections) + 1, suite_id |-> suiteId, name |-> name]

\* testrail.addSection(projectId, {name, suite_id})
addSection(suiteId, name) ==
  [id |-> Cardinality(sections) + 1, suite_id |-> suiteId, name |-> name]

\* the case object createTestCase builds and testrail.addCase stores
addCase(sectionId, title, typeId, priorityId, jiraTicket) ==
  [id |-> Cardinality(cases) + 1, section_id |-> sectionId, title |-> title,
   type_id |-> OrElseNum(typeId, 1), priority_id |-> OrElseNum(priorityId, 2),
   estimate |-> <<"15m">>, refs |-> <<>>,
   custom_jira_ticket |-> OrElse(jiraTicket, <<>>)]

\* (mutant) the entry takes every case of the suite
addPlanEntryIncludeAll(planId, suiteId, caseIds) ==
  [id |-> Cardinality(entries) + 1, plan_id |-> planId, suite_id |-> suiteId,
   include_all |-> TRUE, case_ids |-> <<>>]

\* testrail.addPlanEntry(planId, {suite_id, include_all: false, case_ids})
addPlanEntry(planId, suiteId, caseIds) ==
  [id |-> Cardinality(entries) + 1, plan_id |-> planId, suite_id |-> suiteId,
   include_all |-> FALSE, case_ids |-> caseIds]

\* (mutant) the URL built from the id of the plan before this one
testRailPlanUrlPrevious(planId) ==
  Host \o <<"/index.php?/plans/view/", ToString(IF planId > 1 THEN planId - 1 ELSE planId)>>

\* `${host}/index.php?/plans/view/${testPlan.id}`
testRailPlanUrl(planId) == Host \o <<"/index.php?/plans/view/", ToString(planId)>>

-----------------------------------------------------------------------------
(* ConfluenceService *)

PageTitle(releaseName) == <<"Release ">> \o releaseName \o <<" - QA Report">>

Anchor(href) == <<"<a href=\"">> \o href \o <<"\">Link to TestRail Plan</a>">>

Placeholder == Anchor(<<"#">>)

generateReleaseReportContent(releaseName, releaseDate) ==
  <<"<h1>">> \o PageTitle(releaseName) \o <<"</h1><p>Release Date: ">>
    \o OrElse(releaseDate, <<"today">>)
    \o <<"</p><p>TestRail Plan: ">> \o Placeholder \o <<"</p><h2>Sign-off</h2>">>

\* String.prototype.replace(pattern, replacement) with a string pattern:
\* the first occurrence only; the string unchanged when there is none
Occurrences(s, pat) ==
  {i \in 1..(Len(s) - Len(pat) + 1) : SubSeq(s, i, i + Len(pat) - 1) = pat}

\* (mutant) a missing pattern treated as found at the end: the replacement appended
ReplaceFirstOrAppend(s, pat, rep) ==
  IF Occurrences(s, pat) = {} THEN s \o rep
  ELSE LET i == CHOOSE k \in Occurrences(s, pat) : \A j \in Occurrences(s, pat) : k <= j
       IN  SubSeq(s, 1, i - 1) \o rep \o SubSeq(s, i + Len(pat), Len(s))

ReplaceFirst(s, pat, rep) ==
  IF Occurrences(s, pat) = {} THEN s
  ELSE LET i == CHOOSE k \in Occurrences(s, pat) : \A j \in Occurrences(s, pat) : k <= j
       IN  SubSeq(s, 1, i - 1) \o rep \o SubSeq(s, i + Len(pat), Len(s))

\* confluence.getPages({spaceKey, title}).results: the pages with that title, by id
getPages(title) == {p \in pages : p.title = title}

FirstPage(results) == CHOOSE p \in results : \A q \in results : p.id <= q.id

\* confluence.getPage(pageId)
getPage(pageId) == CHOOSE p \in pages : p.id = pageId

\* confluence.createPage({space, parentId, title, content})
createPage(title, content) ==
  [id |-> Cardinality(pages) + 1, title |-> title, body |-> content, version |-> 1]

\* confluence.updatePage({id, title, content, version: {number}}): the service
\* accepts the update only with the version number following the stored one
updateAccepted(pageId, number) == number = getPage(pageId).version + 1

\* (mutant) a page whose content would not change is left as it is stored
updatedPagesWhenChanged(pageId, title, content, number) ==
  {IF p.id = pageId /\ p.body # content
     THEN [p EXCEPT !.title = title, !.body = content, !.version = number]
     ELSE p : p \in pages}

updatedPages(pageId, title, content, number) ==
  {IF p.id = pageId
     THEN [p EXCEPT !.title = title, !.body = content, !.version = number]
     ELSE p : p \in pages}

-----------------------------------------------------------------------------
(* config.js and the command line of index.js *)

\* the required settings validateConfig checks, in the order it checks them
Settings ==
  <<"GITHUB_TOKEN", "GITHUB_OWNER", "GITHUB_REPO",
    "TESTRAIL_HOST", "TESTRAIL_USERNAME", "TESTRAIL_API_KEY", "TESTRAIL_PROJECT_ID",
    "JIRA_HOST", "JIRA_USERNAME", "JIRA_API_TOKEN", "JIRA_PROJECT_KEY",
    "CONFLUENCE_HOST", "CONFLUENCE_USERNAME", "CONFLUENCE_API_TOKEN",
    "CONFLUENCE_SPACE_KEY", "CONFLUENCE_QA_PARENT_PAGE_ID">>

\* The environments the process is started in: every setting present, or one
\* of them missing or empty
Environments == {{}} \cup {{Settings[i]} : i \in 1..Len(Settings)}

\* (mutant) the last setting is not checked
missingVarsButLast(unset) ==
  SelectSeq(SubSeq(Settings, 1, Len(Settings) - 1), LAMBDA name : name \in unset)

\* if (!config.x) missingVars.push(...): the settings validateConfig reports
missingVars(unset) == SelectSeq(Settings, LAMBDA name : name \in unset)

\* --release-tag: absent, or a tag of the repository
MainTagArgs == {Null, <<"v", "1">>, <<"v", "v", "1">>, <<"V", "1">>}

\* --check-interval in minutes: 0 (the default) or 1
CheckIntervals == {0, 1}

\* no process: the controller is used as a library
NoProcess ==
  [phase |-> "none", envFile |-> TRUE, unset |-> {}, releaseTag |-> Null,
   checkInterval |-> 0, timer |-> FALSE, pending |-> FALSE, exitCode |-> 0, log |-> <<>>]

\* process.exit(code)
exit(p, code) == [p EXCEPT !.phase = "exited", !.exitCode = code]

\* logger.info / logger.warn / logger.error of main
logged(p, line) == [p EXCEPT !.log = Append(p.log, line)]

-----------------------------------------------------------------------------
(* ReleaseController.processRelease: locals of one invocation *)

NoError == [name |-> "", message |-> <<>>]

NoResult == [success |-> FALSE, message |-> Null]

InitRun ==
  [pc |-> "idle", releaseTag |-> Null, release |-> NoRelease, version |-> Null,
   testPlanId |-> 0, tickets |-> <<>>, suiteId |-> 0, sectionId |-> 0,
   testCaseIds |-> <<>>, planSuiteId |-> 0, reportPageId |-> 0,
   pageTitle |-> Null, pageBody |-> Null, pageVersion |-> 0,
   updatedContent |-> Null, versionNumber |-> 0,
   isNew |-> "unasked", now |-> 0, result |-> NoResult, error |-> NoError,
   raised |-> NoError, calls |-> <<>>, requests |-> <<>>]

\* pc values at which a request to a remote service is the next thing to happen
RequestSteps ==
  {"getLatestRelease", "getReleaseByTag", "addPlan", "getVersions", "createVersion",
   "searchJira", "cases.getSuites", "getSections", "addSection", "addCase",
   "plan.getSuites", "addPlanEntry", "getPages", "createPage", "link.getPage",
   "update.getPage", "updatePage"}

Ended == {"resolved", "rejected"}

\* the mapped test-case fields of the next ticket of the loop
NextTicket(c) == formatTicketForTestCase(Issue(c.tickets[Len(c.testCaseIds) + 1]))

\* The adapter method the controller enters at c.pc, with its arguments
\* (none when the request at c.pc is made inside an adapter method already entered)
CallsAt(c) ==
  CASE c.pc = "getLatestRelease" -> <<[op |-> "getLatestRelease", args |-> <<>>]>>
    [] c.pc = "getReleaseByTag"  -> <<[op |-> "getReleaseByTag", args |-> <<c.releaseTag>>]>>
    [] c.pc = "addPlan"          -> <<[op |-> "createTestPlan", args |-> <<c.version, c.release.body>>]>>
    [] c.pc = "getVersions"      -> <<[op |-> "findOrCreateVersion", args |-> <<c.version>>]>>
    [] c.pc = "searchJira"       -> <<[op |-> "getTicketsInRelease", args |-> <<c.version>>]>>
    [] c.pc = "cases.getSuites"  -> <<[op |-> "getTestSuites", args |-> <<>>]>>
    [] c.pc = "getSections"      -> <<[op |-> "findOrCreateReleaseSection", args |-> <<c.suiteId, c.version>>]>>
    [] c.pc = "addCase"          -> <<[op |-> "formatTicketForTestCase",
                                       args |-> <<Issue(c.tickets[Len(c.testCaseIds) + 1]).key>>],
                                      [op |-> "createTestCase",
                                       args |-> <<c.sectionId, NextTicket(c).title,
                                                  NextTicket(c).type, NextTicket(c).priority,
                                                  NextTicket(c).jiraTicket>>]>>
    [] c.pc = "plan.getSuites"   -> <<[op |-> "getTestSuites", args |-> <<>>]>>
    [] c.pc = "addPlanEntry"     -> <<[op |-> "addTestCasesToPlan",
                                       args |-> <<c.testPlanId, c.planSuiteId, c.testCaseIds>>]>>
    [] c.pc = "getPages"         -> <<[op |-> "findOrCreateReleaseReportPage",
                                       args |-> <<c.version, c.release.published_at>>]>>
    [] c.pc = "link.getPage"     -> <<[op |-> "updateTestRailPlanLink",
                                       args |-> <<c.reportPageId, testRailPlanUrl(c.testPlanId)>>]>>
    [] OTHER                     -> <<>>

\* The request sent to the remote service at c.pc
RequestAt(c) ==
  CASE c.pc = "getLatestRelease" -> [op |-> "repos.getLatestRelease", args |-> <<>>]
    [] c.pc = "getReleaseByTag"  -> [op |-> "repos.getReleaseByTag", args |-> <<c.releaseTag>>]
    [] c.pc = "addPlan"          -> [op |-> "addPlan", args |-> <<PlanName(c.version)>>]
    [] c.pc = "getVersions"      -> [op |-> "getVersions", args |-> <<>>]
    [] c.pc = "createVersion"    -> [op |-> "createVersion", args |-> <<c.version>>]
    [] c.pc = "searchJira"       -> [op |-> "searchJira", args |-> <<c.version>>]
    [] c.pc = "cases.getSuites"  -> [op |-> "getSuites", args |-> <<>>]
    [] c.pc = "getSections"      -> [op |-> "getSections", args |-> <<c.suiteId>>]
    [] c.pc = "addSection"       -> [op |-> "addSection", args |-> <<c.suiteId, SectionName(c.version)>>]
    [] c.pc = "addCase"          -> [op |-> "addCase", args |-> <<c.sectionId, NextTicket(c).title>>]
    [] c.pc = "plan.getSuites"   -> [op |-> "getSuites", args |-> <<>>]
    [] c.pc = "addPlanEntry"     -> [op |-> "addPlanEntry", args |-> <<c.testPlanId, c.planSuiteId, c.testCaseIds>>]
    [] c.pc = "getPages"         -> [op |-> "getPages", args |-> <<PageTitle(c.version)>>]
    [] c.pc = "createPage"       -> [op |-> "createPage", args |-> <<PageTitle(c.version)>>]
    [] c.pc = "link.getPage"     -> [op |-> "getPage", args |-> <<c.reportPageId>>]
    [] c.pc = "update.getPage"   -> [op |-> "getPage", args |-> <<c.reportPageId>>]
    [] c.pc = "updatePage"       -> [op |-> "updatePage", args |-> <<c.reportPageId, c.versionNumber + 1>>]

\* c after the request at c.pc has been sent (and the adapter method entered)
Issued(c) ==
  [c EXCEPT !.calls = c.calls \o CallsAt(c), !.requests = Append(c.requests, RequestAt(c))]

\* a synchronous adapter call of the controller
Called(c, op, args) == [c EXCEPT !.calls = Append(c.calls, [op |-> op, args |-> args])]

\* The error a failing request raises
UpstreamError(c) == [name |-> "UpstreamError", message |-> <<c.pc>>]

NoSuitesError == [name |-> "Error", message |-> <<"No test suites found in TestRail">>]

\* (mutant) the catch block throws a new error built from the message
rethrowWrapped(error) ==
  [name |-> "Error", message |-> <<"Error processing release: ">> \o error.message]

\* catch (error) { logger.error(...); throw error; } of the adapters and of the
\* controller's helper methods
rethrow(error) == error

\* (mutant) the catch block reports the failure as an unsuccessful result
processReleaseCatchResolves(c, error) ==
  [c EXCEPT !.pc = "resolved", !.result = [success |-> FALSE, message |-> error.message]]

\* (mutant) the catch block deletes the test plan of the failed invocation
processReleaseCatchUndoes(c, error) ==
  [c EXCEPT !.pc = "rejected", !.error = error,
            !.requests = Append(c.requests, [op |-> "deletePlan", args |-> <<c.testPlanId>>])]

\* (mutant) the catch block logs and throws nothing: the promise resolves with
\* undefined
processReleaseCatchSwallows(c, error) == [c EXCEPT !.pc = "resolved"]

\* catch (error) { logger.error(...); throw error; } of processRelease
processReleaseCatch(c, error) == [c EXCEPT !.pc = "rejected", !.error = error]

\* (mutant) a failed case creation is skipped and the invocation goes on
ThrowUnlessCase(c, error) ==
  IF c.pc = "addCase"
    THEN [c EXCEPT !.raised = error, !.pc = "plan.getSuites"]
    ELSE [c EXCEPT !.pc = "rejected", !.raised = error, !.error = error]

\* An error raised while c is waiting at an await
Throw(c, error) == processReleaseCatch([c EXCEPT !.raised = error], rethrow(error))

\* return { success: false, message: 'Release is not new' }
notNewResult == [success |-> FALSE, message |-> <<"Release is not new">>]

\* (mutant) the tag reported instead of the version derived from it
successResultRawTag(c) ==
  [success |-> TRUE, version |-> c.release.tag_name, testPlanId |-> c.testPlanId,
   testCasesCount |-> Len(c.testCaseIds), reportPageId |-> c.reportPageId]

\* return { success: true, version, testPlanId, testCasesCount, reportPageId }
successResult(c) ==
  [success |-> TRUE, version |-> c.version, testPlanId |-> c.testPlanId,
   testCasesCount |-> Len(c.testCaseIds), reportPageId |-> c.reportPageId]

-----------------------------------------------------------------------------
(* Decisions of the controller and of the find-or-create methods *)

\* (mutant) the tag argument ignored: always the latest release
byTagNever(releaseTag) == FALSE

\* if (releaseTag): fetch by tag, else fetch the latest release
byTag(releaseTag) == Truthy(releaseTag)

\* (mutant) the guard on isNewRelease dropped
skipReleaseNever(isNew) == FALSE

\* if (!this.githubService.isNewRelease(release)): skip the release
skipRelease(isNew) == ~isNew

\* if (suites.length === 0) throw
noSuites(listing) == Len(listing) = 0

\* (mutant) the loop stops one ticket early
moreTicketsOffByOne(c) == Len(c.testCaseIds) + 1 < Len(c.tickets)

\* for (const ticket of tickets): is there a ticket left to create a case for
moreTickets(c) == Len(c.testCaseIds) < Len(c.tickets)

LoopNext(c) == [c EXCEPT !.pc = IF moreTickets(c) THEN "addCase" ELSE "plan.getSuites"]

\* const version = this.githubService.extractVersionFromTag(release.tag_name)
Versioned(c) ==
  [Called(c, "extractVersionFromTag", <<c.release.tag_name>>)
     EXCEPT !.version = extractVersionFromTag(c.release.tag_name), !.pc = "addPlan"]

-----------------------------------------------------------------------------
(* Actions *)

trvars == <<plans, entries, sections, cases, suites>>
jiravars == <<versions, issues>>
svcvars == <<plans, entries, sections, cases, suites, versions, issues, pages>>

\* The services and the controller before any invocation
ServicesInit ==
  /\ run = [r \in Slots |-> InitRun]
  /\ started = 0
  /\ past = <<>>
  /\ plans = {}
  /\ entries = {}
  /\ cases = {}
  /\ sections = {[id |-> 1, suite_id |-> 2, name |-> SectionName(<<"1">>)],
                 [id |-> 2, suite_id |-> 1, name |-> SectionName(<<"v", "1">>)]}
  /\ suites \in SuiteLists
  /\ versions = <<[id |-> 1, name |-> <<"v", "1">>, description |-> <<>>],
                  [id |-> 2, name |-> <<"0", ".", "9">>, description |-> <<>>]>>
  /\ issues \in IssueLists
  /\ pages = {[id |-> 1, title |-> PageTitle(<<"v", "1">>),
               body |-> generateReleaseReportContent(<<"v", "1">>, Null), version |-> 1]}

\* processRelease called on a controller, whoever the caller is
Init == ServicesInit /\ proc = NoProcess

\* What a successful invocation leaves behind: the version it worked on and
\* the ids of what it created
Outcome(c) ==
  [version |-> c.version, testPlanId |-> c.testPlanId, testCaseIds |-> c.testCaseIds,
   reportPageId |-> c.reportPageId]

\* past, once the invocation of slot 1 is replaced by the next one
Remembered ==
  IF run[1].pc = "resolved" /\ run[1].result.success
    THEN Append(past, Outcome(run[1])) ELSE past

\* processRelease(releaseTag) is invoked in slot r
Invoke(r, releaseTag) ==
  /\ run' = [run EXCEPT ![r] =
               [InitRun EXCEPT !.releaseTag = releaseTag,
                               !.pc = IF byTag(releaseTag) THEN "getReleaseByTag"
                                                           ELSE "getLatestRelease"]]
  /\ started' = started + 1
  /\ UNCHANGED svcvars

\* The next invocation starts when the previous one has ended
Start ==
  /\ started < MaxRuns
  /\ run[1].pc \in Ended \cup {"idle"}
  /\ run[2].pc = "idle"
  /\ past' = Remembered
  /\ proc' = proc
  /\ \E releaseTag \in TagArgs : Invoke(1, releaseTag)

\* Invocations for one and the same release (the latest, tagged v1)
SameReleaseArgs == {Null, <<"v", "1">>}

\* An invocation starts whatever the other slot is doing.  Slot 1 is a tick of
\* the timer callback, which invokes processRelease() without a tag; slot 2 is
\* another tick or an invocation with the tag of the same release.
StartOverlapping(r) ==
  /\ run[r].pc = "idle"
  /\ past' = past
  /\ proc' = proc
  /\ \E releaseTag \in (IF r = 1 THEN {Null} ELSE SameReleaseArgs) : Invoke(r, releaseTag)

GetLatestRelease(r) ==
  /\ run[r].pc = "getLatestRelease"
  /\ \E now \in NowValues :
       LET c     == [Issued(run[r]) EXCEPT !.release = LatestRelease]
           isNew == isNewRelease(c.release, now)
           c1    == [Called(c, "isNewRelease", <<c.release.tag_name>>)
                       EXCEPT !.isNew = IF isNew THEN "yes" ELSE "no", !.now = now]
       IN  run' = [run EXCEPT ![r] =
                     IF skipRelease(isNew)
                       THEN [c1 EXCEPT !.pc = "resolved", !.result = notNewResult]
                       ELSE Versioned(c1)]
  /\ UNCHANGED <<started, past, proc, svcvars>>

GetReleaseByTag(r) ==
  /\ run[r].pc = "getReleaseByTag"
  /\ LET c     == Issued(run[r])
         found == ReleasesByTag(c.releaseTag)
     IN  run' = [run EXCEPT ![r] =
                   IF found = {}
                     THEN Throw(c, [name |-> "HttpError", message |-> <<"Not Found">>])
                     ELSE Versioned([c EXCEPT !.release = CHOOSE rel \in found : TRUE])]
  /\ UNCHANGED <<started, past, proc, svcvars>>

AddPlan(r) ==
  /\ run[r].pc = "addPlan"
  /\ LET c    == Issued(run[r])
         plan == addPlan(c.version, c.release.body)
     IN  /\ plans' = plans \cup {plan}
         /\ run' = [run EXCEPT ![r] = [c EXCEPT !.testPlanId = plan.id, !.pc = "getVersions"]]
  /\ UNCHANGED <<started, past, proc, entries, sections, cases, suites, versions, issues, pages>>

GetVersions(r) ==
  /\ run[r].pc = "getVersions"
  /\ LET c == Issued(run[r])
     IN  run' = [run EXCEPT ![r] =
                   [c EXCEPT !.pc = IF getVersionByName(versions, c.version) # 0
                                      THEN "searchJira" ELSE "createVersion"]]
  /\ UNCHANGED <<started, past, proc, svcvars>>

CreateVersion(r) ==
  /\ run[r].pc = "createVersion"
  /\ LET c == Issued(run[r])
     IN  /\ versions' = Append(versions, createVersion(versions, c.version, Null))
         /\ run' = [run EXCEPT ![r] = [c EXCEPT !.pc = "searchJira"]]
  /\ UNCHANGED <<started, past, proc, trvars, issues, pages>>

SearchJira(r) ==
  /\ run[r].pc = "searchJira"
  /\ LET c == Issued(run[r])
     IN  run' = [run EXCEPT ![r] = [c EXCEPT !.tickets = issues, !.pc = "cases.getSuites"]]
  /\ UNCHANGED <<started, past, proc, svcvars>>

CasesGetSuites(r) ==
  /\ run[r].pc = "cases.getSuites"
  /\ LET c == Issued(run[r])
     IN  run' = [run EXCEPT ![r] =
                   IF noSuites(suites) THEN Throw(c, NoSuitesError)
                   ELSE [c EXCEPT !.suiteId = suites[1], !.pc = "getSections"]]
  /\ UNCHANGED <<started, past, proc, svcvars>>

GetSections(r) ==
  /\ run[r].pc = "getSections"
  /\ LET c     == Issued(run[r])
         found == findReleaseSection(getSections(c.suiteId), c.version)
     IN  run' = [run EXCEPT ![r] =
                   IF found # {}
                     THEN LoopNext([c EXCEPT !.sectionId = (CHOOSE s \in found : TRUE).id])
                     ELSE [c EXCEPT !.pc = "addSection"]]
  /\ UNCHANGED <<started, past, proc, svcvars>>

AddSection(r) ==
  /\ run[r].pc = "addSection"
  /\ LET c       == Issued(run[r])
         section == addSection(c.suiteId, SectionName(c.version))
     IN  /\ sections' = sections \cup {section}
         /\ run' = [run EXCEPT ![r] = LoopNext([c EXCEPT !.sectionId = section.id])]
  /\ UNCHANGED <<started, past, proc, plans, entries, cases, suites, versions, issues, pages>>

AddCase(r) ==
  /\ run[r].pc = "addCase"
  /\ LET c        == Issued(run[r])
         t        == NextTicket(run[r])
         testCase == addCase(c.sectionId, t.title, t.type, t.priority, t.jiraTicket)
     IN  /\ cases' = cases \cup {testCase}
         /\ run' = [run EXCEPT ![r] =
                      LoopNext([c EXCEPT !.testCaseIds = Append(c.testCaseIds, testCase.id)])]
  /\ UNCHANGED <<started, past, proc, plans, entries, sections, suites, versions, issues, pages>>

PlanGetSuites(r) ==
  /\ run[r].pc = "plan.getSuites"
  /\ LET c == Issued(run[r])
     IN  run' = [run EXCEPT ![r] =
                   IF noSuites(suites) THEN Throw(c, NoSuitesError)
                   ELSE [c EXCEPT !.planSuiteId = suites[1], !.pc = "addPlanEntry"]]
  /\ UNCHANGED <<started, past, proc, svcvars>>

AddPlanEntry(r) ==
  /\ run[r].pc = "addPlanEntry"
  /\ LET c == Issued(run[r])
     IN  /\ entries' = entries \cup {addPlanEntry(c.testPlanId, c.planSuiteId, c.testCaseIds)}
         /\ run' = [run EXCEPT ![r] = [c EXCEPT !.pc = "getPages"]]
  /\ UNCHANGED <<started, past, proc, plans, sections, cases, suites, versions, issues, pages>>

GetPages(r) ==
  /\ run[r].pc = "getPages"
  /\ LET c       == Issued(run[r])
         results == getPages(PageTitle(c.version))
     IN  run' = [run EXCEPT ![r] =
                   IF results # {}
                     THEN [c EXCEPT !.reportPageId = FirstPage(results).id, !.pc = "link.getPage"]
                     ELSE [c EXCEPT !.pc = "createPage"]]
  /\ UNCHANGED <<started, past, proc, svcvars>>

CreatePage(r) ==
  /\ run[r].pc = "createPage"
  /\ LET c    == Issued(run[r])
         page == createPage(PageTitle(c.version),
                            generateReleaseReportContent(c.version, c.release.published_at))
     IN  /\ pages' = pages \cup {page}
         /\ run' = [run EXCEPT ![r] = [c EXCEPT !.reportPageId = page.id, !.pc = "link.getPage"]]
  /\ UNCHANGED <<started, past, proc, trvars, jiravars>>

LinkGetPage(r) ==
  /\ run[r].pc = "link.getPage"
  /\ LET c    == Issued(run[r])
         page == getPage(c.reportPageId)
     IN  run' = [run EXCEPT ![r] =
                   [c EXCEPT !.pageTitle = page.title,
                             !.pageBody = page.body,
                             !.pageVersion = page.version,
                             !.updatedContent =
                                ReplaceFirst(page.body, Placeholder,
                                             Anchor(testRailPlanUrl(c.testPlanId))),
                             !.pc = "update.getPage"]]
  /\ UNCHANGED <<started, past, proc, svcvars>>

UpdateGetPage(r) ==
  /\ run[r].pc = "update.getPage"
  /\ LET c == Issued(run[r])
     IN  run' = [run EXCEPT ![r] =
                   [c EXCEPT !.versionNumber = getPage(c.reportPageId).version,
                             !.pc = "updatePage"]]
  /\ UNCHANGED <<started, past, proc, svcvars>>

UpdatePage(r) ==
  /\ run[r].pc = "updatePage"
  /\ LET c == Issued(run[r])
     IN  IF updateAccepted(c.reportPageId, c.versionNumber + 1)
           THEN /\ pages' = updatedPages(c.reportPageId, c.pageTitle, c.updatedContent,
                                         c.versionNumber + 1)
                /\ run' = [run EXCEPT ![r] =
                             [c EXCEPT !.pc = "resolved", !.result = successResult(c)]]
           ELSE /\ pages' = pages
                /\ run' = [run EXCEPT ![r] =
                             Throw(c, [name |-> "HttpError", message |-> <<"Conflict">>])]
  /\ UNCHANGED <<started, past, proc, trvars, jiravars>>

\* The request at run[r].pc fails (transport, authentication, validation)
RequestFails(r) ==
  /\ run[r].pc \in RequestSteps
  /\ run' = [run EXCEPT ![r] = Throw(Issued(run[r]), UpstreamError(run[r]))]
  /\ UNCHANGED <<started, past, proc, svcvars>>

Step(r) ==
  \/ GetLatestRelease(r)
  \/ GetReleaseByTag(r)
  \/ AddPlan(r)
  \/ GetVersions(r)
  \/ CreateVersion(r)
  \/ SearchJira(r)
  \/ CasesGetSuites(r)
  \/ GetSections(r)
  \/ AddSection(r)
  \/ AddCase(r)
  \/ PlanGetSuites(r)
  \/ AddPlanEntry(r)
  \/ GetPages(r)
  \/ CreatePage(r)
  \/ LinkGetPage(r)
  \/ UpdateGetPage(r)
  \/ UpdatePage(r)
  \/ RequestFails(r)

\* Invocations one after another (the driver's ticks do not overlap)
Next == Start \/ \E r \in Slots : Step(r)

Spec == Init /\ [][Next]_vars

\* Every adapter call eventually returns or fails: an invocation waiting at an
\* await goes on
FairSpec == Spec /\ WF_vars(Step(1))

\* Someone adds, removes or reorders suites in the TestRail project while an
\* invocation is in progress
SuitesChange ==
  /\ run[1].pc \in RequestSteps
  /\ \E listing \in SuiteLists : listing # suites /\ suites' = listing
  /\ UNCHANGED <<run, started, past, proc, plans, entries, sections, cases, versions,
                 issues, pages>>

ChurnNext == Next \/ SuitesChange

ChurnSpec == Init /\ [][ChurnNext]_vars

\* index.js ------------------------------------------------------------------

\* How the process is started: the environment, the .env file, the arguments
MainInit ==
  /\ ServicesInit
  /\ \E envFile \in BOOLEAN, unset \in Environments,
        releaseTag \in MainTagArgs, checkInterval \in CheckIntervals :
       proc = [NoProcess EXCEPT !.phase = "load", !.envFile = envFile, !.unset = unset,
                                !.releaseTag = releaseTag,
                                !.checkInterval = checkInterval]

\* import of config.js: without a .env file the process exits with code 1
LoadConfig ==
  /\ proc.phase = "load"
  /\ proc' = IF ~proc.envFile THEN exit(proc, 1) ELSE [proc EXCEPT !.phase = "validate"]
  /\ UNCHANGED <<run, started, past, svcvars>>

\* validateConfig(): a missing or empty setting is reported, exit code 1
ValidateConfig ==
  /\ proc.phase = "validate"
  /\ proc' = IF Len(missingVars(proc.unset)) > 0
               THEN exit(proc, 1) ELSE [proc EXCEPT !.phase = "main"]
  /\ UNCHANGED <<run, started, past, svcvars>>

\* main(): new ReleaseController(), then the first processRelease, with the
\* tag of the command line when there is one
MainStart ==
  /\ proc.phase = "main"
  /\ proc' = [proc EXCEPT !.phase = "first"]
  /\ past' = past
  /\ Invoke(1, IF Truthy(proc.releaseTag) THEN proc.releaseTag ELSE Null)

\* the line main logs about a result
resultLine(result) == IF result.success THEN "processed" ELSE "not processed"

\* (mutant) the interval compared with >= 0
keepsCheckingFromZero(checkInterval) == checkInterval >= 0

\* if (argv.checkInterval > 0): set up the timer, else exit
keepsChecking(checkInterval) == checkInterval > 0

\* main() after `await releaseController.processRelease(...)`: the result is
\* logged, then setInterval or process.exit(0); a rejection is caught by the
\* try/catch of main: logged, process.exit(1)
MainFirstEnds ==
  /\ proc.phase = "first"
  /\ run[1].pc \in Ended
  /\ proc' = IF run[1].pc = "rejected"
               THEN exit(logged(proc, "error"), 1)
               ELSE IF keepsChecking(proc.checkInterval)
                      THEN [logged(proc, resultLine(run[1].result))
                              EXCEPT !.phase = "interval", !.timer = TRUE]
                      ELSE exit(logged(proc, resultLine(run[1].result)), 0)
  /\ UNCHANGED <<run, started, past, svcvars>>

\* (mutant) the callback passes the tag of the command line on
TickWithTag ==
  /\ proc.phase = "interval"
  /\ proc.timer
  /\ ~proc.pending
  /\ started < MaxRuns
  /\ proc' = [proc EXCEPT !.pending = TRUE]
  /\ past' = Remembered
  /\ Invoke(1, proc.releaseTag)

\* The timer fires: the callback calls processRelease() without a tag.  Here
\* the period is longer than an invocation takes: the previous callback is over.
Tick ==
  /\ proc.phase = "interval"
  /\ proc.timer
  /\ ~proc.pending
  /\ started < MaxRuns
  /\ proc' = [proc EXCEPT !.pending = TRUE]
  /\ past' = Remembered
  /\ Invoke(1, Null)

\* The callback awaits inside no try/catch: its promise rejects and nothing
\* handles the rejection, which ends a node 18 process with exit code 1
unhandledRejection(p) == exit(p, 1)

\* the callback after `await releaseController.processRelease()`
TickEnds ==
  /\ proc.phase = "interval"
  /\ proc.pending
  /\ run[1].pc \in Ended
  /\ proc' = IF run[1].pc = "rejected"
               THEN unhandledRejection(proc)
               ELSE [logged(proc, resultLine(run[1].result)) EXCEPT !.pending = FALSE]
  /\ UNCHANGED <<run, started, past, svcvars>>

\* the invocation goes on while the process is alive
MainStep == proc.phase \in {"first", "interval"} /\ Step(1)

MainNext ==
  \/ LoadConfig
  \/ ValidateConfig
  \/ MainStart
  \/ MainFirstEnds
  \/ Tick
  \/ TickEnds
  \/ MainStep

MainSpec == MainInit /\ [][MainNext]_vars

\* Two invocations that may overlap
OverlapNext == \E r \in Slots : StartOverlapping(r) \/ Step(r)

\* a release with at most one issue
OverlapInit == Init /\ Len(issues) <= 1

OverlapSpec == OverlapInit /\ [][OverlapNext]_vars

-----------------------------------------------------------------------------
(* Reading the logs of an invocation *)

Ops(c) == [i \in 1..Len(c.calls) |-> c.calls[i].op]

ReqOps(c) == [i \in 1..Len(c.requests) |-> c.requests[i].op]

Count(seq, x) == Cardinality({i \in 1..Len(seq) : seq[i] = x})

Has(seq, x) == \E i \in 1..Len(seq) : seq[i] = x

IsPrefix(s, t) == Len(s) <= Len(t) /\ SubSeq(t, 1, Len(s)) = s

Repeat(x, n) == [i \in 1..n |-> x]

\* adapter methods that return without a round trip
SyncOps == {"isNewRelease", "extractVersionFromTag", "formatTicketForTestCase"}

IsAsync(op) == op \notin SyncOps

\* the awaited adapter calls of an invocation, in the order they were made
AsyncOps(c) == SelectSeq(Ops(c), IsAsync)

FetchOp(c) == IF c.releaseTag # Null /\ c.releaseTag # <<>>
                THEN "getReleaseByTag" ELSE "getLatestRelease"

Succeeded(c) == c.pc = "resolved" /\ c.result.success

\* adapter calls and requests that write to a service
WritingOps ==
  {"createTestPlan", "findOrCreateVersion", "findOrCreateReleaseSection", "createTestCase",
   "addTestCasesToPlan", "findOrCreateReleaseReportPage", "updateTestRailPlanLink"}

WritingRequests ==
  {"addPlan", "createVersion", "addSection", "addCase", "addPlanEntry", "createPage",
   "updatePage"}

-----------------------------------------------------------------------------
(* C1 *)

ClaimedOrder(c) ==
  <<FetchOp(c), "createTestPlan", "findOrCreateVersion", "getTicketsInRelease",
    "getTestSuites", "findOrCreateReleaseSection">>
    \o Repeat("createTestCase", Len(c.tickets))
    \o <<"addTestCasesToPlan", "findOrCreateReleaseReportPage", "updateTestRailPlanLink">>

ActualOrder(c) ==
  <<FetchOp(c), "createTestPlan", "findOrCreateVersion", "getTicketsInRelease",
    "getTestSuites", "findOrCreateReleaseSection">>
    \o Repeat("createTestCase", Len(c.tickets))
    \o <<"getTestSuites", "addTestCasesToPlan", "findOrCreateReleaseReportPage",
         "updateTestRailPlanLink">>

-----------------------------------------------------------------------------
(* C2 *)

\* C2: an invocation without a tag whose isNewRelease returned false ends
\* (resolved) having made no writing adapter call and sent no writing request:
\* its only calls are getLatestRelease and isNewRelease.
C2_NotNewNoSideEffects ==
  \A r \in Slots :
    (~(run[r].releaseTag # Null /\ run[r].releaseTag # <<>>) /\ run[r].isNew = "no") =>
      /\ run[r].pc = "resolved"
      /\ \A i \in 1..Len(run[r].calls) : run[r].calls[i].op \notin WritingOps
      /\ \A i \in 1..Len(run[r].requests) : run[r].requests[i].op \notin WritingRequests
      /\ Ops(run[r]) = <<"getLatestRelease", "isNewRelease">>
      /\ run[r].testPlanId = 0

C2_Witness ==
  \E r \in Slots : run[r].isNew = "no" /\ run[r].pc = "resolved" /\ started = 2

-----------------------------------------------------------------------------
(* C3 *)

\* C3: a not-new latest release makes the invocation resolve with exactly
\* {success: false, message: 'Release is not new'}; every failure makes it
\* reject; it never resolves unsuccessfully for a failure and never rejects
\* for the not-new case.
C3_SkipIsNotFailure ==
  \A r \in Slots :
    /\ run[r].isNew = "no" =>
         /\ run[r].pc = "resolved"
         /\ run[r].result = [success |-> FALSE, message |-> <<"Release is not new">>]
    /\ run[r].raised # NoError => run[r].pc = "rejected"
    /\ run[r].pc = "rejected" => run[r].isNew # "no" /\ run[r].raised # NoError
    /\ (run[r].pc = "resolved" /\ ~run[r].result.success) =>
         run[r].isNew = "no" /\ run[r].raised = NoError

C3_Witness ==
  /\ started = 2
  /\ run[1].pc = "rejected"
  /\ run[1].raised.name = "UpstreamError"
  /\ run[1].testPlanId # 0

-----------------------------------------------------------------------------
(* C4 *)

Tagged(c) == c.releaseTag # Null /\ c.releaseTag # <<>>

\* the result of the latest-release path with isNew true, from the adapter
\* responses an invocation has received
HappyResult(c) ==
  [success |-> TRUE, version |-> extractVersionFromTag(c.release.tag_name),
   testPlanId |-> c.testPlanId, testCasesCount |-> Len(c.tickets),
   reportPageId |-> c.reportPageId]

\* C4: an invocation with an explicit tag never consults isNewRelease, fetches the
\* release by that tag and is never skipped; when it resolves, its result is the
\* one the latest-release path with isNew true computes from the same responses.
C4_TagBypassesIsNew ==
  \A r \in Slots :
    /\ Tagged(run[r]) =>
         /\ run[r].isNew = "unasked"
         /\ ~Has(Ops(run[r]), "isNewRelease")
         /\ ~Has(Ops(run[r]), "getLatestRelease")
         /\ run[r].release # NoRelease => run[r].release.tag_name = run[r].releaseTag
         /\ run[r].pc = "resolved" => Succeeded(run[r]) /\ run[r].result = HappyResult(run[r])
    /\ (~Tagged(run[r]) /\ run[r].isNew = "yes" /\ run[r].pc = "resolved") =>
         run[r].result = HappyResult(run[r])

\* a release older than 24 hours processed to the end by its tag
C4_Witness ==
  \E r \in Slots :
    /\ run[r].releaseTag = <<"0", ".", "9">>
    /\ \A now \in NowValues : now - run[r].release.created_at > 24 * 3600000
    /\ Succeeded(run[r])

-----------------------------------------------------------------------------
(* C5 *)

LastRequest(c) == c.requests[Len(c.requests)]

\* the request a failing step sends
RequestOf(step) ==
  CASE step \in {"cases.getSuites", "plan.getSuites"} -> "getSuites"
    [] step \in {"link.getPage", "update.getPage"}    -> "getPage"
    [] step = "getLatestRelease"                      -> "repos.getLatestRelease"
    [] step = "getReleaseByTag"                       -> "repos.getReleaseByTag"
    [] OTHER                                          -> step

\* how often a request may be sent by one invocation that retries nothing
AtMost(c, op) ==
  CASE op = "addCase"   -> Len(c.tickets)
    [] op = "getSuites" -> 2
    [] op = "getPage"   -> 2
    [] OTHER            -> 1

\* C5: once an adapter call has failed the invocation is rejected, with the very
\* error that was raised; the failing request is the last one it sent, and no
\* request was sent more often than an invocation without retries sends it.
C5_FailureAborts ==
  \A r \in Slots :
    /\ run[r].raised # NoError => run[r].pc = "rejected"
    /\ run[r].pc = "rejected" => run[r].raised # NoError /\ run[r].error = run[r].raised
    /\ (run[r].pc = "rejected" /\ run[r].raised.name = "UpstreamError") =>
         LastRequest(run[r]).op = RequestOf(run[r].raised.message[1])
    /\ \A i \in 1..Len(run[r].requests) :
         Count(ReqOps(run[r]), run[r].requests[i].op) <= AtMost(run[r], run[r].requests[i].op)

C5_Witness ==
  \E r \in Slots :
    /\ run[r].pc = "rejected"
    /\ run[r].raised = [name |-> "UpstreamError", message |-> <<"addPlanEntry">>]
    /\ Len(run[r].testCaseIds) = 2

-----------------------------------------------------------------------------
(* C6 *)

KnownRequests ==
  WritingRequests \cup
    {"repos.getLatestRelease", "repos.getReleaseByTag", "getVersions", "searchJira",
     "getSuites", "getSections", "getPages", "getPage"}

\* C6: when an invocation is rejected, everything it created is still in its
\* service (the plan, the tracker version, the section, the cases, the report
\* page), and it has sent no request other than the lookups and creations of the
\* pipeline (no delete, no undo).
C6_NoRollback ==
  \A r \in Slots :
    run[r].pc = "rejected" =>
      /\ run[r].testPlanId # 0 => \E p \in plans : p.id = run[r].testPlanId
      /\ Has(ReqOps(run[r]), "searchJira") =>
           \E i \in 1..Len(versions) : versions[i].name = run[r].version
      /\ run[r].sectionId # 0 => \E s \in sections : s.id = run[r].sectionId
      /\ \A k \in 1..Len(run[r].testCaseIds) :
           \E t \in cases : t.id = run[r].testCaseIds[k] /\ t.section_id = run[r].sectionId
      /\ Has(ReqOps(run[r]), "getPages") =>
           \E e \in entries : e.plan_id = run[r].testPlanId
      /\ run[r].reportPageId # 0 => \E p \in pages : p.id = run[r].reportPageId
      /\ \A i \in 1..Len(run[r].requests) : run[r].requests[i].op \in KnownRequests

\* rejected at the very last request, after everything had been created
C6_Witness ==
  \E r \in Slots :
    /\ run[r].pc = "rejected"
    /\ LastRequest(run[r]).op = "updatePage"
    /\ Has(ReqOps(run[r]), "createVersion")
    /\ Has(ReqOps(run[r]), "addSection")
    /\ Has(ReqOps(run[r]), "createPage")
    /\ Len(run[r].testCaseIds) = 2

-----------------------------------------------------------------------------
(* C7 *)

\* C7: when createTestCase fails for the i-th issue the invocation is rejected:
\* exactly i createTestCase calls were made, addTestCasesToPlan and the report
\* page calls were never made, and the i-1 cases created before are in the
\* section and in no plan entry.
C7_CaseFailureAborts ==
  \A r \in Slots :
    (run[r].raised.name = "UpstreamError" /\ run[r].raised.message = <<"addCase">>) =>
      LET i == Len(run[r].testCaseIds) + 1
      IN  /\ run[r].pc = "rejected"
          /\ i <= Len(run[r].tickets)
          /\ Count(Ops(run[r]), "createTestCase") = i
          /\ Count(ReqOps(run[r]), "addCase") = i
          /\ LastRequest(run[r]).op = "addCase"
          /\ \A op \in {"addTestCasesToPlan", "findOrCreateReleaseReportPage",
                        "updateTestRailPlanLink"} : ~Has(Ops(run[r]), op)
          /\ \A op \in {"addPlanEntry", "getPages", "createPage", "getPage", "updatePage"} :
               ~Has(ReqOps(run[r]), op)
          /\ \A k \in 1..(i - 1) :
               /\ \E t \in cases : t.id = run[r].testCaseIds[k] /\ t.section_id = run[r].sectionId
               /\ \A e \in entries : ~Has(e.case_ids, run[r].testCaseIds[k])

\* the second of two case creations fails
C7_Witness ==
  \E r \in Slots :
    /\ run[r].raised.name = "UpstreamError" /\ run[r].raised.message = <<"addCase">>
    /\ Len(run[r].testCaseIds) = 1
    /\ Len(run[r].tickets) = 2

-----------------------------------------------------------------------------
(* C8 *)

\* C8: a successful invocation resolves with {success: true, version, testPlanId,
\* testCasesCount, reportPageId}: version is extractVersionFromTag of the tag of
\* the release it fetched, testPlanId the id of the plan it created (the newest
\* plan), testCasesCount the number of issues the tracker returned and the number
\* of createTestCase calls it made, reportPageId the id of the page
\* findOrCreateReleaseReportPage returned (the page with the version's title).
C8_SuccessResult ==
  \A r \in Slots :
    Succeeded(run[r]) =>
      /\ DOMAIN run[r].result =
           {"success", "version", "testPlanId", "testCasesCount", "reportPageId"}
      /\ run[r].release \in Releases
      /\ run[r].result.version = extractVersionFromTag(run[r].release.tag_name)
      /\ run[r].result.testPlanId = Cardinality(plans)
      /\ \E p \in plans :
           /\ p.id = run[r].result.testPlanId
           /\ p.name = <<"Release ">> \o run[r].result.version \o <<" Test Plan">>
      /\ run[r].result.testCasesCount = Len(issues)
      /\ run[r].result.testCasesCount = Count(Ops(run[r]), "createTestCase")
      /\ \E p \in pages :
           /\ p.id = run[r].result.reportPageId
           /\ p.title = <<"Release ">> \o run[r].result.version \o <<" - QA Report">>

C8_Witness ==
  \E r \in Slots :
    /\ Succeeded(run[r])
    /\ run[r].release.tag_name = <<"v", "1">>
    /\ run[r].result.version = <<"1">>
    /\ run[r].result.testCasesCount = 2
    /\ run[r].result.testPlanId = 2

-----------------------------------------------------------------------------
(* C9 *)

SectionKey(version) == <<"Release ">> \o version

PageKey(version) == <<"Release ">> \o version \o <<" - QA Report">>

VersionsNamed(name) == {i \in 1..Len(versions) : versions[i].name = name}

SectionsNamed(suiteId, name) == {s \in sections : s.suite_id = suiteId /\ s.name = name}

PagesTitled(title) == {p \in pages : p.title = title}

\* the invocation has just come back from the lookup `req` without creating
Found(c, req) == c.pc \in RequestSteps /\ Len(c.requests) > 0 /\ LastRequest(c).op = req

\* the invocation has just come back from the creation `req`
Created(c, req) == c.pc # "rejected" /\ Len(c.requests) > 0 /\ LastRequest(c).op = req

\* C9: in each of findOrCreateVersion, findOrCreateReleaseSection and
\* findOrCreateReleaseReportPage a create request is about to be sent only when the
\* lookup returned no entity with exactly the version's name/title; when the lookup
\* returned one, no create request is sent and that entity is what is returned;
\* a create request carries exactly the deterministic name/title, is sent at most
\* once per invocation, and its result is what is returned.
C9_FindOrCreate ==
  \A r \in Slots :
    LET c == run[r]
    IN  /\ c.pc = "createVersion" => VersionsNamed(c.version) = {}
        /\ (Found(c, "getVersions") /\ c.pc # "createVersion") =>
             VersionsNamed(c.version) # {} /\ ~Has(ReqOps(c), "createVersion")
        /\ Created(c, "createVersion") =>
             /\ LastRequest(c).args = <<c.version>>
             /\ VersionsNamed(c.version) = {Len(versions)}
        /\ c.pc = "addSection" => SectionsNamed(c.suiteId, SectionKey(c.version)) = {}
        /\ (Found(c, "getSections") /\ c.pc # "addSection") =>
             /\ \E s \in SectionsNamed(c.suiteId, SectionKey(c.version)) : s.id = c.sectionId
             /\ ~Has(ReqOps(c), "addSection")
        /\ Created(c, "addSection") =>
             /\ LastRequest(c).args[2] = SectionKey(c.version)
             /\ SectionsNamed(c.suiteId, SectionKey(c.version)) =
                  {[id |-> c.sectionId, suite_id |-> c.suiteId, name |-> SectionKey(c.version)]}
        /\ c.pc = "createPage" => PagesTitled(PageKey(c.version)) = {}
        /\ (Found(c, "getPages") /\ c.pc # "createPage") =>
             /\ \E p \in PagesTitled(PageKey(c.version)) : p.id = c.reportPageId
             /\ ~Has(ReqOps(c), "createPage")
        /\ Created(c, "createPage") =>
             /\ LastRequest(c).args = <<PageKey(c.version)>>
             /\ \E p \in PagesTitled(PageKey(c.version)) : p.id = c.reportPageId
             /\ Cardinality(PagesTitled(PageKey(c.version))) = 1
        /\ \A req \in {"createVersion", "addSection", "createPage"} :
             Count(ReqOps(c), req) <= 1

\* one invocation that found its section and created its version and its page
C9_Witness ==
  \E r \in Slots :
    /\ Succeeded(run[r])
    /\ Has(ReqOps(run[r]), "createVersion")
    /\ ~Has(ReqOps(run[r]), "addSection")
    /\ Has(ReqOps(run[r]), "createPage")

-----------------------------------------------------------------------------
(* C10 *)

\* C10: when invocations do not overlap, repeating a find-or-create creates
\* nothing new: there is at most one section of a given name in a suite and at
\* most one page of a given title, and the section and the page an invocation
\* works with are those carrying the name and the title of its version.
C10_Idempotent ==
  /\ \A s, t \in sections : (s.suite_id = t.suite_id /\ s.name = t.name) => s = t
  /\ \A p, q \in pages : p.title = q.title => p.id = q.id
  /\ \A r \in Slots :
       /\ run[r].sectionId # 0 =>
            \E s \in SectionsNamed(run[r].suiteId, SectionKey(run[r].version)) :
              s.id = run[r].sectionId
       /\ run[r].reportPageId # 0 =>
            \E p \in PagesTitled(PageKey(run[r].version)) : p.id = run[r].reportPageId

\* a second invocation for version 1 that found the section and the page the
\* first one had created
C10_Witness ==
  /\ started = 2
  /\ suites = <<1>>
  /\ Succeeded(run[1])
  /\ run[1].version = <<"1">>
  /\ ~Has(ReqOps(run[1]), "addSection")
  /\ ~Has(ReqOps(run[1]), "createPage")

-----------------------------------------------------------------------------
(* C11 *)

\* the invocation sent the creation `req` and the request did not fail
DidCreate(c, req) ==
  Has(ReqOps(c), req) /\ ~(c.pc = "rejected" /\ LastRequest(c).op = req)

\* C11: when two invocations for the same release overlap, both may look up
\* before either creates: the second creation is then still sent although the
\* entity exists by now, and once both have created there are two tracker
\* versions of the same name, two sections 'Release {version}' in the same
\* suite, two report pages of the same title.
C11_OverlapDuplicates ==
  \A r1, r2 \in Slots :
    (r1 # r2 /\ run[r1].version = run[r2].version /\ run[r1].version # Null) =>
      LET v == run[r1].version
      IN  /\ (DidCreate(run[r1], "createVersion") /\ DidCreate(run[r2], "createVersion")) =>
                Cardinality(VersionsNamed(v)) = 2
          /\ (DidCreate(run[r1], "createVersion") /\ run[r2].pc = "createVersion") =>
                Cardinality(VersionsNamed(v)) = 1
          /\ (DidCreate(run[r1], "addSection") /\ DidCreate(run[r2], "addSection")
                /\ run[r1].suiteId = run[r2].suiteId) =>
                /\ Cardinality(SectionsNamed(run[r1].suiteId, SectionKey(v))) = 2
                /\ run[r1].sectionId # run[r2].sectionId
          /\ (DidCreate(run[r1], "createPage") /\ DidCreate(run[r2], "createPage")) =>
                /\ Cardinality(PagesTitled(PageKey(v))) = 2
                /\ run[r1].reportPageId # run[r2].reportPageId

\* two overlapping invocations after which every find-or-create entity of
\* version 1 exists twice
C11_Witness ==
  /\ \A r \in Slots : run[r].version = <<"1">> /\ run[r].pc \in Ended
  /\ Cardinality(VersionsNamed(<<"1">>)) = 2
  /\ Cardinality(SectionsNamed(1, SectionKey(<<"1">>))) = 2
  /\ Cardinality(PagesTitled(PageKey(<<"1">>))) = 2

-----------------------------------------------------------------------------
(* C12 *)

\* the invocation is past the plan step / past the case step
PastPlanStep(c) == c.testPlanId # 0

PastCaseStep(c) ==
  c.pc \in {"plan.getSuites", "addPlanEntry", "getPages", "createPage", "link.getPage",
            "update.getPage", "updatePage", "resolved"} /\ c.testPlanId # 0

\* every invocation so far succeeded, all for the version of the current one
AllSucceededFor(v) ==
  /\ Succeeded(run[1])
  /\ Len(past) + 1 = started
  /\ run[1].version = v
  /\ \A i \in 1..Len(past) : past[i].version = v

\* C12: plans and cases are never deduplicated.  An invocation past the plan
\* step has sent exactly one addPlan and holds a plan id no earlier invocation
\* holds; past the case step it has sent one addCase per issue and holds case
\* ids no earlier invocation holds.  After n successful invocations, one after
\* another, for the same release with k issues there are n plans and n*k cases,
\* and still one version, one section and one report page of that release.
C12_NoDeduplication ==
  /\ PastPlanStep(run[1]) =>
       /\ Count(ReqOps(run[1]), "addPlan") = 1
       /\ \E p \in plans : p.id = run[1].testPlanId
       /\ \A i \in 1..Len(past) : past[i].testPlanId # run[1].testPlanId
  /\ PastCaseStep(run[1]) =>
       /\ Count(ReqOps(run[1]), "addCase") = Len(run[1].tickets)
       /\ Len(run[1].testCaseIds) = Len(run[1].tickets)
       /\ NoRep(run[1].testCaseIds)
       /\ \A k \in 1..Len(run[1].testCaseIds) :
            /\ \E t \in cases : t.id = run[1].testCaseIds[k]
            /\ \A i \in 1..Len(past) : ~Has(past[i].testCaseIds, run[1].testCaseIds[k])
  /\ \A v \in {<<"1">>, <<"0", ".", "9">>} :
       AllSucceededFor(v) =>
         /\ Cardinality({p \in plans : p.name = <<"Release ">> \o v \o <<" Test Plan">>})
              = started
         /\ Cardinality(plans) = started
         /\ Cardinality(cases) = started * Len(issues)
         /\ Cardinality(VersionsNamed(v)) = 1
         /\ Cardinality(SectionsNamed(suites[1], SectionKey(v))) = 1
         /\ Cardinality(PagesTitled(PageKey(v))) = 1

\* two successful invocations for version 1 with two issues: 2 plans, 4 cases
C12_Witness ==
  /\ started = 2
  /\ AllSucceededFor(<<"1">>)
  /\ Len(issues) = 2
  /\ Cardinality(plans) = 2
  /\ Cardinality(cases) = 4

-----------------------------------------------------------------------------
(* C13 *)

\* '<a href="{testRailHost}/index.php?/plans/view/{planId}">Link to TestRail Plan</a>'
PlanAnchor(planId) ==
  <<"<a href=\"">> \o Host \o <<"/index.php?/plans/view/", ToString(planId)>>
    \o <<"\">Link to TestRail Plan</a>">>

Contains(s, pat) == Occurrences(s, pat) # {}

\* C13: after every successful invocation the body of its report page contains
\* the anchor to the test plan created by that same invocation, also when the
\* page existed before the invocation.
C13_PageLinksOwnPlan ==
  \A r \in Slots :
    Succeeded(run[r]) =>
      \E p \in pages :
        /\ p.id = run[r].reportPageId
        /\ Contains(p.body, PlanAnchor(run[r].testPlanId))

-----------------------------------------------------------------------------
(* C14 *)

\* the calls of the adapter method `op` an invocation has made
CallsOf(c, op) == {i \in 1..Len(c.calls) : c.calls[i].op = op}

RequestsOf(c, op) == {i \in 1..Len(c.requests) : c.requests[i].op = op}

\* C14: updateTestRailPlanLink is called with the id of the page this
\* invocation's findOrCreateReleaseReportPage returned (a page carrying the
\* version's title) and with the URL '{host}/index.php?/plans/view/{planId}'
\* where planId is the id of the plan this invocation created (the newest plan,
\* never the plan of an earlier invocation); the page requests that follow go
\* to that page, and a placeholder in the fetched body becomes that URL's anchor.
C14_PatchTargetsOwnPageAndPlan ==
  \A r \in Slots :
    LET c == run[r]
    IN  /\ \A i \in CallsOf(c, "updateTestRailPlanLink") :
             /\ c.calls[i].args[1] = c.reportPageId
             /\ \E p \in pages : p.id = c.reportPageId
                                  /\ p.title = <<"Release ">> \o c.version \o <<" - QA Report">>
             /\ c.calls[i].args[2] =
                  Host \o <<"/index.php?/plans/view/", ToString(c.testPlanId)>>
             /\ c.testPlanId = Cardinality(plans)
             /\ \A k \in 1..Len(past) : past[k].testPlanId # c.testPlanId
        /\ \A i \in RequestsOf(c, "getPage") \cup RequestsOf(c, "updatePage") :
             c.requests[i].args[1] = c.reportPageId
        /\ (c.pageBody # Null /\ Contains(c.pageBody, Placeholder)) =>
             /\ Contains(c.updatedContent, PlanAnchor(c.testPlanId))
             /\ \A k \in 1..Len(past) :
                  ~Contains(c.updatedContent, PlanAnchor(past[k].testPlanId))

\* a second invocation patching the page it created, with the URL of plan 2
C14_Witness ==
  /\ Len(past) = 1
  /\ Succeeded(run[1])
  /\ run[1].testPlanId = 2
  /\ Has(ReqOps(run[1]), "createPage")
  /\ \E p \in pages : p.id = run[1].reportPageId /\ Contains(p.body, PlanAnchor(2))

-----------------------------------------------------------------------------
(* C15 *)

\* C15: the version number updateTestRailPlanLink persists the page with is
\* exactly 1 greater than the version number of the page fetch the patched
\* body was taken from.
C15_VersionFollowsBodyFetch ==
  \A r \in Slots :
    \A i \in RequestsOf(run[r], "updatePage") :
      run[r].requests[i].args[2] = run[r].pageVersion + 1

-----------------------------------------------------------------------------
(* C16 *)

\* the body updateTestRailPlanLink fetched has no placeholder anchor
PlaceholderAbsent(c) == c.pageBody # Null /\ ~Contains(c.pageBody, Placeholder)

\* C16 as stated: when the placeholder anchor is absent from the fetched body,
\* updateTestRailPlanLink fails with a NotFoundError (so the invocation ends
\* rejected with that error).
C16_AbsentPlaceholderFails ==
  \A r \in Slots :
    (PlaceholderAbsent(run[r]) /\ run[r].pc \in Ended) =>
      run[r].pc = "rejected" /\ run[r].raised.name = "NotFoundError"

\* C16 amended: when the placeholder anchor is absent from the fetched body,
\* updateTestRailPlanLink raises no NotFoundError: the replace leaves the body
\* as fetched, the call goes on to updatePage with that body, and it fails only
\* when one of its two remaining requests fails.
C16_AbsentPlaceholderGoesOn ==
  \A r \in Slots :
    PlaceholderAbsent(run[r]) =>
      /\ run[r].updatedContent = run[r].pageBody
      /\ run[r].raised.name # "NotFoundError"
      /\ run[r].pc \in {"update.getPage", "updatePage", "resolved", "rejected"}
      /\ run[r].pc = "resolved" => Succeeded(run[r])
      /\ run[r].pc = "rejected" =>
           /\ run[r].raised.name \in {"UpstreamError", "HttpError"}
           /\ LastRequest(run[r]).op \in {"getPage", "updatePage"}
           /\ Count(ReqOps(run[r]), "getPage") = 2

\* a successful invocation whose page had no placeholder left
C16_Witness ==
  \E r \in Slots : PlaceholderAbsent(run[r]) /\ Succeeded(run[r])

-----------------------------------------------------------------------------
(* C17 *)

\* the list of case ids an addTestCasesToPlan call was given (its last argument)
CaseIdsArg(call) == call.args[Len(call.args)]

\* C17: whenever the controller calls addTestCasesToPlan the list of case ids
\* it passes is non-empty, and no addPlanEntry request carries an empty list.
C17_AttachNonEmpty ==
  \A r \in Slots :
    /\ \A i \in CallsOf(run[r], "addTestCasesToPlan") : Len(CaseIdsArg(run[r].calls[i])) > 0
    /\ \A i \in RequestsOf(run[r], "addPlanEntry") : Len(run[r].requests[i].args[3]) > 0

-----------------------------------------------------------------------------
(* C18 *)

EntriesOfPlan(planId) == {e \in entries : e.plan_id = planId}

\* C18: a successful invocation has sent exactly one addPlanEntry, after every
\* addCase of the invocation; the entry has include_all false and its case_ids
\* are the ids of the cases this invocation created, one per issue, in the
\* order of the issues the tracker query returned.
C18_OneAttachInIssueOrder ==
  \A r \in Slots :
    Succeeded(run[r]) =>
      LET c == run[r]
      IN  /\ Cardinality(RequestsOf(c, "addPlanEntry")) = 1
          /\ Cardinality(CallsOf(c, "addTestCasesToPlan")) = 1
          /\ \A i \in RequestsOf(c, "addCase"), j \in RequestsOf(c, "addPlanEntry") : i < j
          /\ Cardinality(RequestsOf(c, "addCase")) = Len(issues)
          /\ Cardinality(EntriesOfPlan(c.testPlanId)) = 1
          /\ \A e \in EntriesOfPlan(c.testPlanId) :
               /\ e.include_all = FALSE
               /\ Len(e.case_ids) = Len(issues)
               /\ NoRep(e.case_ids)
               /\ \A k \in 1..Len(issues) :
                    /\ \E t \in cases :
                         /\ t.id = e.case_ids[k]
                         /\ t.custom_jira_ticket = <<"PROJ-", ToString(issues[k])>>
                    /\ \A i \in 1..Len(past) : ~Has(past[i].testCaseIds, e.case_ids[k])

\* two issues returned in the order PROJ-2, PROJ-1 and attached in that order
C18_Witness ==
  \E r \in Slots :
    /\ Succeeded(run[r])
    /\ issues = <<2, 1>>
    /\ Len(past) = 1
    /\ \E e \in EntriesOfPlan(run[r].testPlanId) : Len(e.case_ids) = 2

-----------------------------------------------------------------------------
(* C19 *)

\* C19: the adapter's addTestCasesToPlan is called with the argument list
\* (id of the plan created in this invocation, list of the ids of the cases
\* created in this invocation), as the controller test asserts with
\* toHaveBeenCalledWith(123, [101]).
C19_AttachCalledWithPlanAndIds ==
  \A r \in Slots :
    \A i \in CallsOf(run[r], "addTestCasesToPlan") :
      run[r].calls[i].args = <<run[r].testPlanId, run[r].testCaseIds>>

-----------------------------------------------------------------------------
(* C20 *)

\* a release created `hours` hours before `now`
CreatedHoursBefore(now, hours) == [LatestRelease EXCEPT !.created_at = now - hours * 3600000]

\* C20: isNewRelease(release) is true exactly when now - release.created_at is
\* at most 24 hours in milliseconds, the boundary included: whenever an
\* invocation asked, the answer it got is that comparison of the clock value it
\* read; a release created 23 or 24 hours before now is new, one created 24
\* hours and 1 ms or 25 hours before now is not.
C20_NewWithin24Hours ==
  /\ \A r \in Slots :
       run[r].isNew # "unasked" =>
         (run[r].isNew = "yes" <=> run[r].now - run[r].release.created_at <= 86400000)
  /\ \A now \in NowValues :
       /\ isNewRelease(CreatedHoursBefore(now, 23), now)
       /\ isNewRelease(CreatedHoursBefore(now, 24), now)
       /\ ~isNewRelease(CreatedHoursBefore(now, 25), now)
       /\ ~isNewRelease([LatestRelease EXCEPT !.created_at = now - 86400001], now)

\* a release exactly 24 hours old was taken as new and processed
C20_Witness ==
  \E r \in Slots :
    /\ run[r].isNew = "yes"
    /\ run[r].now - run[r].release.created_at = 86400000
    /\ run[r].testPlanId # 0

-----------------------------------------------------------------------------
(* C21 *)

\* C21: extractVersionFromTag removes exactly one lowercase v at position 0 and
\* nothing else: the version of a release tagged 'v'+rest is rest (vv1 gives
\* v1), the version of a release whose tag does not start with a lowercase v
\* (V1, 0.9) is the tag unchanged.
C21_StripsOneLeadingV ==
  \A r \in Slots :
    run[r].version # Null =>
      LET tag == run[r].release.tag_name
      IN  /\ tag \in {<<"v", "1">>, <<"v", "v", "1">>, <<"V", "1">>, <<"0", ".", "9">>}
          /\ tag[1] = "v" => <<"v">> \o run[r].version = tag
          /\ tag[1] # "v" => run[r].version = tag
          /\ tag = <<"v", "v", "1">> => run[r].version = <<"v", "1">>
          /\ tag = <<"V", "1">> => run[r].version = <<"V", "1">>
          /\ \A i \in CallsOf(run[r], "createTestPlan") :
               run[r].calls[i].args[1] = run[r].version

\* the release tagged vv1 processed as version v1
C21_Witness ==
  \E r \in Slots :
    /\ run[r].release.tag_name = <<"v", "v", "1">>
    /\ run[r].version = <<"v", "1">>
    /\ Succeeded(run[r])

-----------------------------------------------------------------------------
(* C22 *)

\* the priority name / the issue type name of the k-th ticket of an invocation
PriorityOf(c, k) == Issue(c.tickets[k]).fields.priority

IssueTypeOf(c, k) == Issue(c.tickets[k]).fields.issuetype

\* the createTestCase call made for the k-th ticket
CaseCall(c, k) ==
  c.calls[CHOOSE i \in CallsOf(c, "createTestCase") :
            Cardinality({j \in CallsOf(c, "createTestCase") : j < i}) = k - 1]

\* C22: the priority mapping is total: for every priority name, a missing one
\* included, the priority id passed to createTestCase is an integer in 1..5,
\* namely Highest->1, High->2, Medium->3, Low->4, Lowest->5 and 3 otherwise.
C22_PriorityMappingTotal ==
  \A r \in Slots :
    \A k \in 1..Cardinality(CallsOf(run[r], "createTestCase")) :
      LET name == PriorityOf(run[r], k)
          id   == CaseCall(run[r], k).args[4]
      IN  /\ id \in 1..5
          /\ id = (CASE name = "Highest" -> 1 [] name = "High" -> 2 [] name = "Medium" -> 3
                      [] name = "Low" -> 4 [] name = "Lowest" -> 5 [] OTHER -> 3)

-----------------------------------------------------------------------------
(* C23 *)

\* C23: the issue-type mapping is total: for every issue type name, a missing
\* one included, the type id passed to createTestCase is in {1,2,3,6,7}, namely
\* Bug->1, Task->2, Story->3, Improvement->6, Epic->7 and 1 otherwise.
C23_IssueTypeMappingTotal ==
  \A r \in Slots :
    \A k \in 1..Cardinality(CallsOf(run[r], "createTestCase")) :
      LET name == IssueTypeOf(run[r], k)
          id   == CaseCall(run[r], k).args[3]
      IN  /\ id \in {1, 2, 3, 6, 7}
          /\ id = (CASE name = "Bug" -> 1 [] name = "Task" -> 2 [] name = "Story" -> 3
                      [] name = "Improvement" -> 6 [] name = "Epic" -> 7 [] OTHER -> 1)

-----------------------------------------------------------------------------
(* C24 *)

\* the process was started in interval mode and got past its configuration
IntervalMode == proc.checkInterval > 0 /\ proc.phase \in {"first", "interval", "exited"}
                  /\ started > 0

\* the driver has dealt with the end of the invocation in slot 1
Handled == proc.phase # "first" /\ ~(proc.phase = "interval" /\ proc.pending)

\* C24: in interval mode the driver survives a failed invocation: once it has
\* dealt with a rejection of processRelease (the first invocation or one fired
\* by the timer) the failure is logged, the process is still running and the
\* timer is still scheduled, so that the next tick invokes processRelease.
C24_DriverSurvivesFailure ==
  (IntervalMode /\ run[1].pc = "rejected" /\ Handled) =>
    /\ proc.phase = "interval"
    /\ proc.timer
    /\ Len(proc.log) > 0 /\ proc.log[Len(proc.log)] = "error"

\* the rejection of an invocation fired by the timer, dealt with
C24_TimerRejection ==
  (IntervalMode /\ proc.timer /\ run[1].pc = "rejected" /\ Handled) =>
    proc.phase = "interval"

-----------------------------------------------------------------------------
(* C25 *)

\* C25: with check-interval 0 the process runs once: processRelease is invoked
\* at most once, no timer is ever scheduled, and as soon as main has dealt with
\* the end of that invocation the process has exited, with code 0 when
\* processRelease resolved (success or not-new skip) and code 1 when it rejected.
C25_RunsOnce ==
  proc.checkInterval = 0 =>
    /\ started <= 1
    /\ ~proc.timer
    /\ ~proc.pending
    /\ proc.phase # "interval"
    /\ (started = 1 /\ proc.phase = "exited") =>
         /\ run[1].pc \in Ended
         /\ run[1].pc = "resolved" => proc.exitCode = 0
         /\ run[1].pc = "rejected" => proc.exitCode = 1
    /\ (started = 1 /\ proc.phase # "exited") => proc.phase = "first"

\* the single invocation skipped a release that is not new: exit code 0
C25_Witness ==
  /\ proc.checkInterval = 0
  /\ proc.phase = "exited"
  /\ proc.exitCode = 0
  /\ started = 1
  /\ run[1].result = [success |-> FALSE, message |-> <<"Release is not new">>]

-----------------------------------------------------------------------------
(* C26 *)

\* no invocation was made, no adapter was called, no service was touched
NothingDone ==
  /\ started = 0
  /\ \A r \in Slots : run[r] = InitRun
  /\ plans = {} /\ entries = {} /\ cases = {}
  /\ Cardinality(sections) = 2 /\ Len(versions) = 2 /\ Cardinality(pages) = 1

\* C26: the configuration is validated once, before orchestration starts: when
\* any of the 16 required settings is missing or empty the process exits with
\* code 1 and no processRelease invocation and no adapter call ever happens; an
\* invocation is only ever made with every setting present.
C26_ConfigValidatedFirst ==
  /\ Len(Settings) = 16
  /\ \A i \in 1..Len(Settings) :
       (Settings[i] \in proc.unset /\ proc.phase \notin {"load", "validate"}) =>
         /\ proc.phase = "exited"
         /\ proc.exitCode = 1
         /\ NothingDone
  /\ proc.phase \in {"load", "validate"} => NothingDone
  /\ started > 0 => proc.unset = {} /\ proc.envFile

\* the last of the 16 settings missing: exit code 1, nothing done
C26_Witness ==
  /\ proc.unset = {"CONFLUENCE_QA_PARENT_PAGE_ID"}
  /\ proc.envFile
  /\ proc.phase = "exited"
  /\ proc.exitCode = 1

-----------------------------------------------------------------------------
(* C27 *)

NoSuitesRaised(c) ==
  c.raised = [name |-> "Error", message |-> <<"No test suites found in TestRail">>]

NoneOf(seq, ops) == \A i \in 1..Len(seq) : seq[i] \notin ops

\* the test plan and the tracker version of the invocation are still there
PlanAndVersionRemain(c) ==
  /\ \E p \in plans : p.id = c.testPlanId
  /\ VersionsNamed(c.version) # {}

\* C27 as stated: when getTestSuites returns an empty list the invocation is
\* rejected with 'No test suites found in TestRail'; no section lookup or
\* creation, no createTestCase, no addTestCasesToPlan and no report-page call
\* was issued, and the plan and the version created earlier remain.
C27_NoSuitesNothingAfter ==
  \A r \in Slots :
    NoSuitesRaised(run[r]) =>
      /\ run[r].pc = "rejected" /\ run[r].error = run[r].raised
      /\ NoneOf(Ops(run[r]), {"findOrCreateReleaseSection", "createTestCase",
                               "addTestCasesToPlan", "findOrCreateReleaseReportPage",
                               "updateTestRailPlanLink"})
      /\ NoneOf(ReqOps(run[r]), {"getSections", "addSection", "addCase", "addPlanEntry",
                                  "getPages", "createPage", "getPage", "updatePage"})
      /\ PlanAndVersionRemain(run[r])

\* C27 amended: the claim holds for the getTestSuites of the case step (the
\* first of the invocation).  When it is the second getTestSuites, the one
\* addTestCasesToPlan of the controller makes, that returns an empty list, the
\* invocation is rejected with the same error after the section was looked up
\* and every case created; in both cases the adapter's addTestCasesToPlan and
\* the report-page calls are never issued and the plan and the version remain.
C27_NoSuitesAborts ==
  \A r \in Slots :
    /\ NoSuitesRaised(run[r]) =>
         /\ run[r].pc = "rejected" /\ run[r].error = run[r].raised
         /\ LastRequest(run[r]).op = "getSuites"
         /\ NoneOf(Ops(run[r]), {"addTestCasesToPlan", "findOrCreateReleaseReportPage",
                                  "updateTestRailPlanLink"})
         /\ NoneOf(ReqOps(run[r]), {"addPlanEntry", "getPages", "createPage", "getPage",
                                     "updatePage"})
         /\ PlanAndVersionRemain(run[r])
         /\ Count(ReqOps(run[r]), "getSuites") = 1 =>
              /\ NoneOf(Ops(run[r]), {"findOrCreateReleaseSection", "createTestCase"})
              /\ NoneOf(ReqOps(run[r]), {"getSections", "addSection", "addCase"})
         /\ Count(ReqOps(run[r]), "getSuites") = 2 =>
              /\ Has(Ops(run[r]), "findOrCreateReleaseSection")
              /\ Count(Ops(run[r]), "createTestCase") = Len(run[r].tickets)
    /\ (Len(suites) = 0 /\ Len(run[r].requests) > 0 /\ run[r].pc \notin RequestSteps
           /\ LastRequest(run[r]).op = "getSuites" /\ run[r].raised.name # "UpstreamError") =>
         NoSuitesRaised(run[r])

\* no suite at the case step: rejected right after the plan and the version
\* were created
C27_Witness ==
  \E r \in Slots :
    /\ NoSuitesRaised(run[r])
    /\ Count(ReqOps(run[r]), "getSuites") = 1
    /\ Has(ReqOps(run[r]), "createVersion")
    /\ run[r].testPlanId # 0

-----------------------------------------------------------------------------
(* C28 *)

\* C28: within one invocation the suite under which the cases are attached to
\* the plan is the suite in which the release section was found or created,
\* even if the suites of the project change while the invocation is in progress.
C28_AttachUnderSectionSuite ==
  \A r \in Slots :
    \A i \in RequestsOf(run[r], "addPlanEntry") :
      /\ \A j \in CallsOf(run[r], "findOrCreateReleaseSection") :
           run[r].requests[i].args[2] = run[r].calls[j].args[1]
      /\ \A s \in sections :
           s.id = run[r].sectionId => s.suite_id = run[r].requests[i].args[2]

-----------------------------------------------------------------------------
(* C29 *)

\* the section returned by findOrCreateReleaseSection of c
ReleaseSectionOf(c) ==
  {n \in sections : n.id = c.sectionId /\ n.suite_id = c.suiteId
                      /\ n.name = <<"Release ">> \o c.version}

\* C29: for every issue returned by the tracker query exactly one
\* createTestCase call is issued, in the section returned by
\* findOrCreateReleaseSection of the same invocation, with the title
\* '{key} - {summary}', jiraTicket equal to the key, and type and priority ids
\* equal to the mapped values of the issue's type and priority.
C29_OneCasePerIssue ==
  \A r \in Slots :
    LET c == run[r]
        n == Cardinality(CallsOf(c, "createTestCase"))
    IN  /\ n <= Len(c.tickets)
        /\ Count(Ops(c), "getTestSuites") = 2 => n = Len(c.tickets)
        /\ n > 0 => Has(Ops(c), "findOrCreateReleaseSection") /\ ReleaseSectionOf(c) # {}
        /\ \A k \in 1..n :
             LET issue == Issue(c.tickets[k])
             IN  CaseCall(c, k).args =
                   <<c.sectionId,
                     issue.key \o <<" - ">> \o issue.fields.summary,
                     mapJiraIssueTypeToTestRail(issue.fields.issuetype),
                     mapJiraPriorityToTestRail(issue.fields.priority),
                     issue.key>>

\* a successful invocation for a release with two issues
C29_Witness ==
  \E r \in Slots :
    /\ Succeeded(run[r])
    /\ Len(run[r].tickets) = 2
    /\ Cardinality(CallsOf(run[r], "createTestCase")) = 2

-----------------------------------------------------------------------------
(* C30 *)

\* the page updateTestRailPlanLink of c works on, as it is stored now
StoredPage(c) == CHOOSE p \in pages : p.id = c.reportPageId

\* C30: when the placeholder anchor is absent from the fetched page body,
\* updateTestRailPlanLink still issues an update of the page, with the title
\* and the body as fetched and the version number increased by 1, and it
\* completes without error (unless one of its requests fails).
C30_NoOpRewrite ==
  \A r \in Slots :
    LET c == run[r]
    IN  PlaceholderAbsent(c) =>
          /\ \A i \in RequestsOf(c, "updatePage") :
               /\ c.requests[i].args[1] = c.reportPageId
               /\ c.requests[i].args[2] = c.pageVersion + 1
               /\ c.updatedContent = c.pageBody
          /\ (c.pc \in Ended /\ c.raised.name # "UpstreamError") =>
               /\ Succeeded(c)
               /\ Cardinality(RequestsOf(c, "updatePage")) = 1
               /\ LastRequest(c).op = "updatePage"
               /\ StoredPage(c).title = c.pageTitle
               /\ StoredPage(c).body = c.pageBody
               /\ StoredPage(c).version = c.pageVersion + 1

\* a page patched by an earlier invocation is rewritten as it was: created with
\* version 1, patched to version 2, rewritten unchanged with version 3
C30_Witness ==
  \E r \in Slots :
    /\ PlaceholderAbsent(run[r]) /\ Succeeded(run[r])
    /\ Has(ReqOps(run[r]), "updatePage")
    /\ run[r].pageVersion >= 2
    /\ StoredPage(run[r]) = [id |-> run[r].reportPageId, title |-> run[r].pageTitle,
                             body |-> run[r].pageBody, version |-> run[r].pageVersion + 1]

-----------------------------------------------------------------------------
(* C31 *)

\* the page update of run[r] is accepted in this step
UpdatePersisted(r) == run[r].pc = "updatePage" /\ run'[r].pc = "resolved"

\* C31: updateTestRailPlanLink never overwrites a modification of the page made
\* by another writer between its read of the body and its update: an update is
\* accepted only when the stored page still has the version and the body that
\* were read.
C31_NoLostUpdate ==
  [][\A r \in Slots :
       UpdatePersisted(r) =>
         /\ StoredPage(run[r]).version = run[r].pageVersion
         /\ StoredPage(run[r]).body = run[r].pageBody]_vars

-----------------------------------------------------------------------------
(* C32 *)

\* the process only monitors: started with a check interval and no tag
Monitoring == proc.checkInterval > 0 /\ ~Truthy(proc.releaseTag)

LatestVersion == extractVersionFromTag(LatestRelease.tag_name)

\* C32: in continuous monitoring mode a latest release that stays the same
\* gets one test plan: once an invocation of the driver has processed it, a
\* later tick does not call createTestPlan for it again.
C32_OnePlanPerRelease ==
  Monitoring =>
    /\ Cardinality({p \in plans : p.name = PlanName(LatestVersion)}) <= 1
    /\ (\E i \in 1..Len(past) : past[i].version = LatestVersion) =>
         ~Has(Ops(run[1]), "createTestPlan")

-----------------------------------------------------------------------------
(* C33 *)

\* started with both a release tag and a positive check interval
TagAndInterval == Truthy(proc.releaseTag) /\ proc.checkInterval > 0

\* the invocation of slot 1 was fired by the timer
FiredByTimer == proc.phase = "interval" /\ proc.pending

\* C33: when the process is started with both a release tag and a positive
\* check interval, the tag applies to the first invocation only: every
\* invocation fired by the timer calls processRelease without a tag, fetches
\* the latest release and is subject to the isNew guard.
C33_TagFirstInvocationOnly ==
  TagAndInterval =>
    /\ (proc.phase = "first") =>
         /\ run[1].releaseTag = proc.releaseTag
         /\ ~Has(Ops(run[1]), "getLatestRelease") /\ ~Has(Ops(run[1]), "isNewRelease")
    /\ FiredByTimer =>
         /\ run[1].releaseTag = <<"<null>">>
         /\ ~Has(Ops(run[1]), "getReleaseByTag")
         /\ Len(run[1].calls) > 0 => run[1].calls[1].op = "getLatestRelease"
         /\ Len(run[1].calls) > 1 => run[1].calls[2].op = "isNewRelease"
         /\ run[1].isNew = "no" =>
              /\ run[1].pc = "resolved" /\ ~run[1].result.success
              /\ Len(run[1].calls) = 2
         /\ Has(Ops(run[1]), "createTestPlan") => run[1].isNew = "yes"

\* a timer invocation of a process started with a tag skipped the latest
\* release as not new, after the first invocation processed the tagged one
C33_Witness ==
  /\ TagAndInterval /\ FiredByTimer
  /\ run[1].isNew = "no" /\ run[1].pc = "resolved"
  /\ Len(past) = 1

-----------------------------------------------------------------------------
(* C34 *)

Pending(c) == c.pc \in RequestSteps

ResolvedSuccess(c) ==
  /\ c.pc = "resolved" /\ c.result = successResult(c) /\ c.error = NoError
  /\ LastRequest(c).op = "updatePage"

ResolvedSkip(c) ==
  /\ c.pc = "resolved" /\ c.result = [success |-> FALSE, message |-> <<"Release is not new">>]
  /\ c.error = NoError
  /\ ReqOps(c) = <<"repos.getLatestRelease">>
  /\ NoneOf(Ops(c), WritingOps)

Rejection(c) ==
  /\ c.pc = "rejected" /\ c.result = NoResult
  /\ c.error # NoError /\ c.error = c.raised
  /\ Len(c.requests) > 0

\* an invocation that has ended is in exactly one of the three outcomes
OneOutcome(c) ==
  /\ ResolvedSuccess(c) \/ ResolvedSkip(c) \/ Rejection(c)
  /\ ~(ResolvedSuccess(c) /\ ResolvedSkip(c))
  /\ ~(ResolvedSuccess(c) /\ Rejection(c))
  /\ ~(ResolvedSkip(c) /\ Rejection(c))

\* an invocation that has ended keeps its outcome until the next one starts
OutcomeKept ==
  run[1].pc \in Ended => (run'[1] = run[1] \/ (Pending(run'[1]) /\ started' = started + 1))

\* C34: provided each adapter call eventually returns or fails, every
\* invocation of processRelease ends in exactly one of resolved success (after
\* the page update), resolved skip (not new, before any write) or rejection;
\* it never ends in more than one of them and never stays pending.
C34_OneOutcomeEventually ==
  /\ [](\A r \in Slots :
          /\ run[r].pc \in {"idle"} \cup RequestSteps \cup Ended
          /\ run[r].pc \in Ended => OneOutcome(run[r])
          /\ run[r].raised # NoError => run[r].pc = "rejected")
  /\ [][OutcomeKept]_vars
  /\ (Pending(run[1]) ~> run[1].pc \in Ended)

\* after a successful invocation, one rejected inside the loop over two
\* issues, by the failure of the second createTestCase
C34_Witness ==
  /\ Len(past) = 1
  /\ Rejection(run[1])
  /\ Len(run[1].tickets) = 2 /\ Len(run[1].testCaseIds) = 1
  /\ LastRequest(run[1]).op = "addCase"

====
